---- MODULE Spec2Model ----
(***************************************************************************)
(* Model of the AD569x DAC driver (adafruit_ad569x.py) and of the loop of  *)
(* examples/ad569x_simpletest.py.                                          *)
(*                                                                         *)
(* The driver is synchronous and single-threaded.  A call of a bus         *)
(* operation is followed through its positions: the frame buffer is built, *)
(* the `with self.i2c_device` block is entered (the transport is locked),  *)
(* i2c.write is called (and returns or raises), the block is left (the     *)
(* transport is unlocked) and the outcome travels to the caller, which is  *)
(* either the user of the device or the constructor.                       *)
(*                                                                         *)
(* The transport (adafruit_bus_device.I2CDevice) is an external            *)
(* collaborator: the model records every call of i2c.write with the buffer *)
(* and the `end` keyword it was given, and lets the call succeed or raise. *)
(***************************************************************************)
EXTENDS Integers, Sequences, FiniteSets, TLC

(* ------------------------------ bounds -------------------------------- *)

\* Number of calls the user makes on a constructed device.
MaxOps == 2

\* Number of sample DAC values (taken from the front of SampleValues).
NumValues == 3

\* Depth at which the interpreter stops a runaway recursion.
RecursionLimit == 3

\* 16-bit values: 0xABCD, 0x1234, 0x8000, 0x00FF, 0xFFFF, 0x0000
SampleValues == <<43981, 4660, 32768, 255, 65535, 0>>

Values == {SampleValues[i] : i \in 1..NumValues}

Modes == 0..3

\* Number of sample settings (taken from the front of SampleSettings) the user
\* assigns to dac.mode after the construction; the constructor itself is
\* called with every setting in Modes \X BOOLEAN \X BOOLEAN.
NumSettings == 3

\* <<mode, enable_ref, gain2x>>
SampleSettings ==
    << <<1, TRUE, FALSE>>, <<3, FALSE, TRUE>>, <<0, FALSE, FALSE>>, <<2, TRUE, TRUE>>,
       <<0, TRUE, TRUE>>, <<2, FALSE, FALSE>>, <<3, TRUE, FALSE>>, <<1, FALSE, TRUE>> >>

Settings == {SampleSettings[i] : i \in 1..NumSettings}

\* Exceptions the external transport can raise from i2c.write.
TransportErrors == {"OSError", "RuntimeError"}

(* ----------------------- constants of the driver ---------------------- *)

_NOP == 0
_WRITE_INPUT == 16
_UPDATE_DAC == 32
_WRITE_DAC_AND_INPUT == 48
_WRITE_CONTROL == 64

NORMAL_MODE == 0
OUTPUT_1K_IMPEDANCE == 1
OUTPUT_100K_IMPEDANCE == 2
OUTPUT_TRISTATE == 3

\* Payload reset() writes to the control register (0x8000).
RESET_DATA == 32768

\* Number of binary digits the bit operators below look at: enough for every
\* value the driver computes from 16-bit data.
WordBits == 16

(* --------------------- Python integer operators ----------------------- *)

RECURSIVE BitOrN(_, _, _)
BitOrN(a, b, n) ==
    IF n = 0 THEN 0
    ELSE (IF a % 2 = 1 \/ b % 2 = 1 THEN 1 ELSE 0)
         + 2 * BitOrN(a \div 2, b \div 2, n - 1)

RECURSIVE BitAndN(_, _, _)
BitAndN(a, b, n) ==
    IF n = 0 THEN 0
    ELSE (IF a % 2 = 1 /\ b % 2 = 1 THEN 1 ELSE 0)
         + 2 * BitAndN(a \div 2, b \div 2, n - 1)

\* a | b
BitOr(a, b) == BitOrN(a, b, WordBits)

\* a & b
BitAnd(a, b) == BitAndN(a, b, WordBits)

\* a << n
ShiftLeft(a, n) == a * (2 ^ n)

\* a >> n
ShiftRight(a, n) == a \div (2 ^ n)

\* A bool used as an int: True is 1, False is 0.
BoolInt(b) == IF b THEN 1 ELSE 0

\* `not x` on an int: True exactly when x is 0.
PyNot(x) == (x = 0)

\* Bit i of w.
Bit(w, i) == (w \div (2 ^ i)) % 2

(* ------------------------------ state --------------------------------- *)

VARIABLES
    dev,        \* "none": no device object yet; "ready": __init__ returned;
                \* "failed": __init__ raised, no object exists
    init_pc,    \* position of __init__: "start", "reset", "mode", "done", "raised"
    initargs,   \* <<initial_mode, enable_ref, gain2x>> given to __init__
    pc,         \* position of the send function in flight:
                \* "idle", "enter", "write", "exit"
    cur,        \* the bus operation in flight and the buffer it built
    locked,     \* the transport is held (inside `with self.i2c_device`)
    acq,        \* number of times the transport has been acquired
    bus,        \* every call of i2c.write so far, in order
    err,        \* exception raised by the latest call of i2c.write, NoError if none
    outcome,    \* what the user saw from the last call that finished
                \* (nothing while a call is in flight)
    calls,      \* every call of _send_command / _send_write_command so far
    nops,       \* number of calls the user has made on the device
    gdepth      \* nesting depth of the `mode` getter, 0 when not running

vars == <<dev, init_pc, initargs, pc, cur, locked, acq, bus, err, outcome,
          calls, nops, gdepth>>

(* --------------------------- exceptions ------------------------------- *)

NoError == [type |-> "none", text |-> ""]

\* str(error) of an exception the transport raises.
ErrorText(t) == IF t = "OSError" THEN "[Errno 19] No such device"
                ELSE "transport failure"

TransportError(t) == [type |-> t, text |-> ErrorText(t)]

NoOutcome == [of |-> "none", kind |-> "none", type |-> "", msg |-> "", cause |-> ""]

\* A call that returned: every method of the driver returns None.
Returned(op, v) == [of |-> op, kind |-> "return", type |-> v, msg |-> "", cause |-> ""]

Raised(op, t, m, c) == [of |-> op, kind |-> "raise", type |-> t, msg |-> m, cause |-> c]

\* bool(x) of a returned value.
Truthy(v) == v \notin {"None", "False"}

(* ------------------------- frame construction ------------------------- *)

\* Buffer with the two data bytes in the opposite order.
BufferLowByteFirst(command, data) ==
    <<command, BitAnd(data, 255), BitAnd(ShiftRight(data, 8), 255)>>

\* bytearray([command, (data >> 8) & 0xFF, data & 0xFF])
Buffer(command, data) ==
    <<command, BitAnd(ShiftRight(data, 8), 255), BitAnd(data, 255)>>

\* _send_command(command, data): i2c.write(buffer)
SendCommand(command, data) ==
    [fn |-> "_send_command", command |-> command, data |-> data,
     buf |-> Buffer(command, data), end |-> "unset"]

\* _send_write_command(command, data): i2c.write(buffer, end=False)
SendWriteCommand(command, data) ==
    [fn |-> "_send_write_command", command |-> command, data |-> data,
     buf |-> Buffer(command, data), end |-> "False"]

\* The `except Exception` clause of both send functions:
\* raise Exception(f"Error sending command: {error}") from error
WrapError(op, e) ==
    Raised(op, "Exception", "Error sending command: " \o e.text, e.type)

(* ------------------------- control register --------------------------- *)

\* Control word with the mode shifted one bit too far.
ControlDataShift14(new_mode, enable_ref, gain2x) ==
    LET d1 == BitOr(0, ShiftLeft(new_mode, 14))
        d2 == BitOr(d1, BoolInt(PyNot(ShiftLeft(BoolInt(enable_ref), 12))))
        d3 == BitOr(d2, ShiftLeft(BoolInt(gain2x), 11))
    IN  d3

\* The data word the `mode` setter computes.  `not` binds weaker than `<<`,
\* so the second statement ORs in  not (enable_ref << 12).
ControlData(new_mode, enable_ref, gain2x) ==
    LET d0 == 0
        d1 == BitOr(d0, ShiftLeft(new_mode, 13))
        d2 == BitOr(d1, BoolInt(PyNot(ShiftLeft(BoolInt(enable_ref), 12))))
        d3 == BitOr(d2, ShiftLeft(BoolInt(gain2x), 11))
    IN  d3

(* ----------------------- the bus operations --------------------------- *)

NoCall == [op |-> "none", args |-> <<>>, fn |-> "", command |-> _NOP, data |-> 0,
           buf |-> <<>>, end |-> "unset"]

\* Operation op(args) calling the send function w.
Call(op, args, w) ==
    [op |-> op, args |-> args, fn |-> w.fn, command |-> w.command, data |-> w.data,
     buf |-> w.buf, end |-> w.end]

\* reset(): self._send_write_command(_WRITE_CONTROL, 0x8000)
ResetCall == Call("reset", <<>>, SendWriteCommand(_WRITE_CONTROL, RESET_DATA))

\* mode setter: self._send_write_command(_WRITE_CONTROL, data)
ModeCall(m, r, g) ==
    Call("mode", <<m, r, g>>, SendWriteCommand(_WRITE_CONTROL, ControlData(m, r, g)))

\* set_value(value): self._send_command(_WRITE_DAC_AND_INPUT, value)
SetValueCall(v) == Call("set_value", <<v>>, SendCommand(_WRITE_DAC_AND_INPUT, v))

\* write_dac(value): self._send_command(_WRITE_INPUT, value)
WriteDacCall(v) == Call("write_dac", <<v>>, SendCommand(_WRITE_INPUT, v))

\* update_dac(): self._send_command(_UPDATE_DAC, 0x0000)
UpdateDacCall == Call("update_dac", <<>>, SendCommand(_UPDATE_DAC, 0))

\* Names an instance of Adafruit_AD569x answers to.
Attributes ==
    {"NORMAL_MODE", "OUTPUT_1K_IMPEDANCE", "OUTPUT_100K_IMPEDANCE", "OUTPUT_TRISTATE",
     "i2c_device", "_address", "_send_command", "_send_write_command",
     "mode", "set_value", "write_dac", "update_dac", "reset"}

\* dac.<name>: a bound method or value, or AttributeError.
GetAttr(op, name) ==
    IF name \in Attributes
    THEN Returned(op, "attribute")
    ELSE Raised(op, "AttributeError",
                "'Adafruit_AD569x' object has no attribute '" \o name \o "'", "")

\* A getter that returns a stored tuple.
ModeGetterReturnsStored == [do |-> "return", attr |-> "_mode"]

\* The body of the `mode` getter: `return self.mode` evaluates the property again.
ModeGetterBody == [do |-> "call", attr |-> "mode"]

\* The handler of __init__:
\*   except OSError as error: raise OSError(f"Failed to initialize AD569x, {error}")
\* Any other exception leaves __init__ as it is.
InitHandler(exc) ==
    IF exc.type = "OSError"
    THEN Raised("init", "OSError", "Failed to initialize AD569x, " \o exc.msg, exc.type)
    ELSE [exc EXCEPT !.of = "init"]

(* ------------------------------ Init ---------------------------------- *)

Init ==
    /\ dev = "none"
    /\ init_pc = "start"
    /\ initargs = <<NORMAL_MODE, TRUE, FALSE>>
    /\ pc = "idle"
    /\ cur = NoCall
    /\ locked = FALSE
    /\ acq = 0
    /\ bus = <<>>
    /\ err = NoError
    /\ outcome = NoOutcome
    /\ calls = <<>>
    /\ nops = 0
    /\ gdepth = 0

(* ----------------------------- actions -------------------------------- *)

\* A send function is entered with the buffer of call c built.
Start(c) ==
    /\ cur' = c
    /\ pc' = "enter"
    /\ err' = NoError
    /\ outcome' = NoOutcome
    /\ calls' = Append(calls, [op |-> c.op, args |-> c.args,
                                fn |-> c.fn, command |-> c.command, data |-> c.data])

\* Adafruit_AD569x(i2c, address, initial_mode, enable_ref, gain2x) up to the
\* call of self.reset().
Construct(m, r, g) ==
    /\ dev = "none"
    /\ init_pc = "start"
    /\ init_pc' = "reset"
    /\ initargs' = <<m, r, g>>
    /\ Start(ResetCall)
    /\ UNCHANGED <<dev, locked, acq, bus, nops, gdepth>>

\* `with self.i2c_device as i2c:` is entered.
Enter ==
    /\ pc = "enter"
    /\ ~locked
    /\ locked' = TRUE
    /\ acq' = acq + 1
    /\ pc' = "write"
    /\ UNCHANGED <<dev, init_pc, initargs, cur, bus, err, outcome, calls, nops, gdepth>>

\* One call of i2c.write: the operation that made it, the buffer and the `end`
\* keyword handed over, and the acquisition of the transport it ran under.
BusEntry ==
    [op |-> cur.op, args |-> cur.args, buf |-> cur.buf, end |-> cur.end, acq |-> acq]

\* i2c.write(...) returns.
WriteOk ==
    /\ pc = "write"
    /\ bus' = Append(bus, BusEntry)
    /\ err' = NoError
    /\ pc' = "exit"
    /\ UNCHANGED <<dev, init_pc, initargs, cur, locked, acq, outcome, calls, nops, gdepth>>

\* i2c.write(...) raises.
WriteFail(t) ==
    /\ pc = "write"
    /\ bus' = Append(bus, BusEntry)
    /\ err' = TransportError(t)
    /\ pc' = "exit"
    /\ UNCHANGED <<dev, init_pc, initargs, cur, locked, acq, outcome, calls, nops, gdepth>>

\* A send function whose except clause swallows the error.
SendResultSwallowed == Returned(cur.op, "None")

\* What the send function hands its caller once the `with` block is left.
SendResult ==
    IF err = NoError THEN Returned(cur.op, "None") ELSE WrapError(cur.op, err)

\* Leaving the block releases the transport only when the write succeeded.
ExitToUserKeepsLockOnError ==
    /\ pc = "exit"
    /\ init_pc = "done"
    /\ locked' = (err # NoError)
    /\ outcome' = SendResult
    /\ pc' = "idle"
    /\ cur' = NoCall
    /\ UNCHANGED <<dev, init_pc, initargs, acq, bus, err, calls, nops, gdepth>>

\* The `with` block of an operation the user called is left: the transport is
\* released and the user sees the return value or the exception.
ExitToUser ==
    /\ pc = "exit"
    /\ init_pc = "done"
    /\ locked' = FALSE
    /\ outcome' = SendResult
    /\ pc' = "idle"
    /\ cur' = NoCall
    /\ UNCHANGED <<dev, init_pc, initargs, acq, bus, err, calls, nops, gdepth>>

\* self.reset() returned inside __init__: self.mode = (initial_mode, enable_ref, gain2x).
InitResetDone ==
    /\ pc = "exit"
    /\ init_pc = "reset"
    /\ err = NoError
    /\ locked' = FALSE
    /\ init_pc' = "mode"
    /\ Start(ModeCall(initargs[1], initargs[2], initargs[3]))
    /\ UNCHANGED <<dev, initargs, acq, bus, nops, gdepth>>

\* The mode setter returned inside __init__: the constructor returns the device.
InitModeDone ==
    /\ pc = "exit"
    /\ init_pc = "mode"
    /\ err = NoError
    /\ locked' = FALSE
    /\ init_pc' = "done"
    /\ dev' = "ready"
    /\ outcome' = Returned("init", "None")
    /\ pc' = "idle"
    /\ cur' = NoCall
    /\ UNCHANGED <<initargs, acq, bus, err, calls, nops, gdepth>>

\* reset() or the mode setter raised inside __init__: the constructor raises.
InitRaise ==
    /\ pc = "exit"
    /\ init_pc \in {"reset", "mode"}
    /\ err # NoError
    /\ locked' = FALSE
    /\ init_pc' = "raised"
    /\ dev' = "failed"
    /\ outcome' = InitHandler(SendResult)
    /\ pc' = "idle"
    /\ cur' = NoCall
    /\ UNCHANGED <<initargs, acq, bus, err, calls, nops, gdepth>>

\* The user may call a method of a constructed device when nothing is running.
UserMayCall == dev = "ready" /\ pc = "idle" /\ gdepth = 0 /\ nops < MaxOps

\* The part every call of a bus operation by the user has in common.
UserCall ==
    /\ UserMayCall
    /\ nops' = nops + 1
    /\ UNCHANGED <<dev, init_pc, initargs, locked, acq, bus, gdepth>>

reset ==
    /\ UserCall
    /\ Start(ResetCall)

SetMode(m, r, g) ==
    /\ UserCall
    /\ Start(ModeCall(m, r, g))

set_value(v) ==
    /\ UserCall
    /\ Start(SetValueCall(v))

write_dac(v) ==
    /\ UserCall
    /\ Start(WriteDacCall(v))

update_dac ==
    /\ UserCall
    /\ Start(UpdateDacCall)

\* The user reads dac.mode: the getter is entered.
GetMode ==
    /\ UserMayCall
    /\ nops' = nops + 1
    /\ gdepth' = 1
    /\ outcome' = NoOutcome
    /\ UNCHANGED <<dev, init_pc, initargs, pc, cur, locked, acq, bus, err, calls>>

\* One evaluation of the getter's body; the interpreter raises RecursionError
\* when the nesting reaches its limit.
GetModeStep ==
    /\ gdepth > 0
    /\ IF ModeGetterBody.do = "call"
       THEN IF gdepth < RecursionLimit
            THEN gdepth' = gdepth + 1 /\ UNCHANGED outcome
            ELSE /\ gdepth' = 0
                 /\ outcome' = Raised("get_mode", "RecursionError",
                                      "maximum recursion depth exceeded", "")
       ELSE /\ gdepth' = 0
            /\ outcome' = Returned("get_mode", "tuple")
    /\ UNCHANGED <<dev, init_pc, initargs, pc, cur, locked, acq, bus, err, calls, nops>>

\* One pass of the example's loop body up to the evaluation of
\* dac.write_update_dac in `if not dac.write_update_dac(value[i])`.
ExampleStep ==
    /\ UserMayCall
    /\ nops' = nops + 1
    /\ outcome' = GetAttr("example", "write_update_dac")
    /\ UNCHANGED <<dev, init_pc, initargs, pc, cur, locked, acq, bus, err, calls, gdepth>>

Next ==
    \/ \E m \in Modes, r \in BOOLEAN, g \in BOOLEAN : Construct(m, r, g)
    \/ Enter
    \/ WriteOk
    \/ \E t \in TransportErrors : WriteFail(t)
    \/ ExitToUser
    \/ InitResetDone
    \/ InitModeDone
    \/ InitRaise
    \/ reset
    \/ \E s \in Settings : SetMode(s[1], s[2], s[3])
    \/ \E v \in Values : set_value(v)
    \/ \E v \in Values : write_dac(v)
    \/ update_dac
    \/ GetMode
    \/ GetModeStep
    \/ ExampleStep

Spec == Init /\ [][Next]_vars

TypeOK ==
    /\ dev \in {"none", "ready", "failed"}
    /\ init_pc \in {"start", "reset", "mode", "done", "raised"}
    /\ pc \in {"idle", "enter", "write", "exit"}
    /\ locked \in BOOLEAN
    /\ acq \in Nat /\ nops \in 0..MaxOps
    /\ Len(calls) <= MaxOps + 2
    /\ gdepth \in 0..RecursionLimit

(* ------------------------- vocabulary of the claims ------------------- *)

\* The 16-bit payload carried by a 3-byte frame.
Payload(buf) == buf[2] * 256 + buf[3]

\* The frame of command byte c and 16-bit payload w, most significant byte first.
Frame(c, w) == <<c, (w \div 256) % 256, w % 256>>

ResetFrame == <<64, 128, 0>>

\* The control word the documentation gives: mode in bits 14-13, NOT enable_ref
\* in bit 12, gain2x in bit 11.
DocumentedControlWord(m, r, g) ==
    m * 8192 + (IF r THEN 0 ELSE 4096) + (IF g THEN 2048 ELSE 0)

BusOps == {"reset", "mode", "set_value", "write_dac", "update_dac"}

BusIdx == 1..Len(bus)

(* ------------------------------- C1 ----------------------------------- *)

\* C1: every frame the mode setter sends is a WriteControl (0x40) frame whose
\* payload has bits 14-13 equal to the mode, bit 12 equal to NOT enable_ref,
\* bit 11 equal to gain2x and every other bit (15, 10..0) clear.
C1_ControlWordLayout ==
    \A i \in BusIdx :
        bus[i].op = "mode" =>
            LET w == Payload(bus[i].buf)
                a == bus[i].args
            IN  /\ bus[i].buf[1] = 64
                /\ 2 * Bit(w, 14) + Bit(w, 13) = a[1]
                /\ Bit(w, 12) = BoolInt(~a[2])
                /\ Bit(w, 11) = BoolInt(a[3])
                /\ \A b \in {15} \cup (0..10) : Bit(w, b) = 0
                /\ (a = <<OUTPUT_1K_IMPEDANCE, TRUE, FALSE>> => w = 8192)

(* ----------------------- keyword of i2c.write -------------------------- *)

\* What the driver passes to the transport: i2c.write is called with the
\* keyword end=False exactly for the WriteControl (0x40) buffers, and with no
\* keyword for the others.  What the transport then does on the wire, with or
\* without the keyword, is decided by the transport library and is not part of
\* this model.
WriteKeywordByCommand ==
    \A i \in BusIdx :
        /\ bus[i].buf[1] \in {16, 32, 48, 64}
        /\ (bus[i].end = "False") = (bus[i].buf[1] = 64)

(* ------------------------------- C3 ----------------------------------- *)

\* C3: construction issues exactly two bus transactions before any other
\* operation can run: the reset frame, then the WriteControl frame carrying
\* the control word of the initial mode, reference and gain; the device is
\* Ready only after both.
C3_ConstructionSequence ==
    /\ (dev # "ready" => nops = 0 /\ Len(bus) <= 2)
    /\ (dev = "ready" =>
            /\ Len(bus) >= 2
            /\ bus[1].buf = ResetFrame
            /\ bus[2].buf = Frame(64, DocumentedControlWord(initargs[1], initargs[2],
                                                            initargs[3]))
            /\ (initargs = <<NORMAL_MODE, TRUE, FALSE>> => Payload(bus[2].buf) = 0))

(* ------------------------------- C4 ----------------------------------- *)

\* C4: when a write fails during construction, the constructor raises its own
\* "Failed to initialize AD569x" error (an OSError), which differs from the
\* error a later operation raises on a failed write; no device exists, and
\* after a failed reset write the mode write is never attempted.
C4_InitializationError ==
    init_pc = "raised" =>
        /\ dev = "failed"
        /\ outcome.of = "init" /\ outcome.kind = "raise"
        /\ outcome.type = "OSError"
        /\ \E t \in TransportErrors :
               outcome.msg = "Failed to initialize AD569x, " \o
                             WrapError("init", TransportError(t)).msg
        /\ \A t \in TransportErrors :
               outcome.msg # WrapError("init", TransportError(t)).msg

(* ------------------------------- C5 ----------------------------------- *)

\* C5: every call of a send function hands the transport exactly one buffer
\* of 3 bytes [command, payload high byte, payload low byte], in call order:
\* write_dac(v) gives [0x10, hi(v), lo(v)], update_dac() [0x20, 0, 0],
\* set_value(v) [0x30, hi(v), lo(v)]; so write_dac(v) followed by update_dac()
\* puts those two frames on the bus next to each other.
C5_OneFramePerCall ==
    /\ Len(bus) = Len(calls) - (IF pc \in {"enter", "write"} THEN 1 ELSE 0)
    /\ \A i \in BusIdx :
        LET c == calls[i]
            b == bus[i].buf
        IN  /\ Len(b) = 3
            /\ \A k \in 1..3 : b[k] \in 0..255
            /\ b = Frame(c.command, c.data)
            /\ (c.op = "write_dac" => b = Frame(16, c.args[1]))
            /\ (c.op = "update_dac" => b = <<32, 0, 0>>)
            /\ (c.op = "set_value" => b = Frame(48, c.args[1]))
            /\ (c.op \in {"reset", "mode"} => b[1] = 64)

\* write_dac(0xABCD) then update_dac(): [0x10, 0xAB, 0xCD] then [0x20, 0, 0].
C5_Witness ==
    /\ pc = "idle"
    /\ \E i \in BusIdx :
        /\ i + 1 \in BusIdx
        /\ calls[i].op = "write_dac" /\ calls[i].args = <<43981>>
        /\ calls[i + 1].op = "update_dac"
        /\ bus[i].buf = <<16, 171, 205>>
        /\ bus[i + 1].buf = <<32, 0, 0>>

(* ------------------------------- C6 ----------------------------------- *)

\* C6 as stated: when the write of an operation fails, the caller sees the
\* transport's own error, unchanged.
C6_ErrorUnchanged ==
    (pc = "idle" /\ outcome.of \in BusOps /\ err # NoError) =>
        /\ outcome.kind = "raise"
        /\ outcome.type = err.type
        /\ outcome.msg = err.text

\* C6 as amended: when the write of an operation called on a constructed
\* device fails, there is exactly one call of i2c.write for that operation
\* (no retry) and the caller sees a failure: an Exception with the message
\* "Error sending command: <text of the transport error>" whose cause is the
\* transport error; when the write succeeds the operation returns None.
C6_FailureWrapped ==
    /\ Len(bus) <= Len(calls) /\ Len(calls) <= Len(bus) + 1
    /\ (pc = "idle" /\ outcome.of \in BusOps) =>
        /\ Len(bus) = Len(calls)
        /\ calls[Len(calls)].op = outcome.of
        /\ IF err # NoError
           THEN /\ outcome.kind = "raise"
                /\ outcome.type = "Exception"
                /\ outcome.msg = "Error sending command: " \o err.text
                /\ outcome.cause = err.type
           ELSE outcome.kind = "return" /\ outcome.type = "None"

\* write_dac failed with an OSError of the transport after the construction.
C6_Witness ==
    /\ pc = "idle"
    /\ outcome.of = "write_dac"
    /\ outcome.kind = "raise"
    /\ err.type = "OSError"
    /\ Len(bus) = 3

(* ------------------------------- C7 ----------------------------------- *)

\* C7: the transport is held exactly while a send function is between
\* entering its `with` block and leaving it, so it is free whenever no
\* operation is running (after a successful and after a failed write alike),
\* and the i-th call of i2c.write ran under the i-th acquisition, so no two
\* calls share one.
C7_ScopedAcquisition ==
    /\ (pc \in {"idle", "enter"} => ~locked)
    /\ (pc \in {"write", "exit"} => locked)
    /\ \A i \in BusIdx : bus[i].acq = i
    /\ acq = Len(bus) + (IF pc = "write" THEN 1 ELSE 0)

\* A failed operation has returned, then another operation has run, and the
\* transport is free.
C7_Witness ==
    /\ pc = "idle"
    /\ ~locked
    /\ dev = "ready"
    /\ acq = 4
    /\ outcome.kind = "raise"
    /\ outcome.of = "update_dac"

(* ------------------------------- C8 ----------------------------------- *)

\* C8: the device has an operation write_update_dac, so evaluating
\* dac.write_update_dac(value) in the example does not fail, and the
\* write-and-update operation returns a true value when its write succeeded,
\* so `if not ...` reports a failure only when the write failed.
C8_ExampleReportsOnlyFailures ==
    /\ (outcome.of = "example" => outcome.kind = "return")
    /\ (outcome.of = "set_value" /\ outcome.kind = "return" => Truthy(outcome.type))

(* ------------------------------- C9 ----------------------------------- *)

\* C9: reading dac.mode never returns a value: each evaluation of the getter
\* enters the getter again until the interpreter raises RecursionError, and
\* while the getter runs no send function is called and nothing is written
\* to the bus.
C9_GetterNeverReturns ==
    /\ [](/\ (outcome.of = "get_mode" =>
                 outcome.kind = "raise" /\ outcome.type = "RecursionError")
          /\ (gdepth > 0 => pc = "idle" /\ outcome.kind = "none"))
    /\ [][(gdepth > 0 \/ gdepth' > 0) =>
             /\ bus' = bus /\ calls' = calls /\ pc' = pc
             /\ (gdepth' = 0 => gdepth = RecursionLimit)
             /\ (gdepth' > 0 => gdepth' = gdepth + 1)]_vars

\* The getter was called and ended in RecursionError.
C9_Witness ==
    /\ outcome.of = "get_mode"
    /\ outcome.type = "RecursionError"
    /\ gdepth = 0

(* ------------------------------- C10 ---------------------------------- *)

\* C10: the payload of every frame the mode setter sends has bit 15 clear, so
\* it never equals the reset frame [0x40, 0x80, 0x00]; a WriteControl frame
\* with payload 0x8000 comes from reset() only.
C10_ResetPayloadReserved ==
    \A i \in BusIdx :
        /\ (bus[i].op = "mode" =>
                /\ bus[i].args[1] \in Modes
                /\ Bit(Payload(bus[i].buf), 15) = 0
                /\ bus[i].buf # ResetFrame)
        /\ (bus[i].buf[1] = 64 /\ Payload(bus[i].buf) = 32768 => bus[i].op = "reset")

\* The mode setter was called with the largest mode and reset() by the user.
C10_Witness ==
    \E i, j \in BusIdx :
        /\ i > 2 /\ j > 2
        /\ bus[i].op = "mode" /\ bus[i].args = <<OUTPUT_TRISTATE, FALSE, TRUE>>
        /\ bus[j].op = "reset"

====
